---- MODULE Spec2Model ----
(***************************************************************************)
(* Orion: the IQSF research pipeline of src/orion_framework.py.            *)
(*                                                                         *)
(* Independent worker processes (PlannerAgent, GathererAgent,              *)
(* ScoringAgent, NarrativeAgent) coordinate only through the tables of a   *)
(* shared store.  Every action below is the part of one worker's run()     *)
(* that ends with one store call: the local computation before the call    *)
(* (an oracle call touches no shared state) together with the call itself. *)
(* The store's remote procedures (create_new_report,                       *)
(* get_next_unanswered_question, get_next_report_for_synthesis,            *)
(* get_all_evidence_for_report) are not part of the source file; they are  *)
(* modelled from spec.md sections 3 to 6.                                  *)
(***************************************************************************)
EXTENDS Naturals, Integers, Sequences, FiniteSets

\* ---------------------------------------------------------------- bounds
\* Number of dimensions of METHODOLOGY the Planner iterates over (6 in the
\* source, scaled down).
NumDimensions == 2
\* Largest number of questions one oracle answer contributes for a dimension.
MaxPerDim == 1
\* Number of Planner invocations.
MaxPlans == 1
\* Questions of the report the store already holds when the workers start.
InitQuestions == 2
\* Concurrent worker processes of each stage.
NumGatherers == 2
NumScorers == 2
NumNarrators == 2

Gatherers == 1..NumGatherers
Scorers == 1..NumScorers
Narrators == 1..NumNarrators

\* Row ids the tables can hold within the bounds.
RIds == 1..(1 + MaxPlans)
QIds == 1..(InitQuestions + MaxPlans * NumDimensions * MaxPerDim)

\* Narrative texts the oracle can produce.
Texts == {"text_a", "text_b"}
NoRow == "NO_ROW"

ReportStatus == {"PLANNING", "PLAN_FAILED", "RESEARCHING", "SCORING_FAILED", "REVIEW", "COMPLETE"}
\* Status of a question row a Gatherer has claimed and not yet resolved.
IN_PROGRESS == "IN_PROGRESS"
QuestionTerminal == {"COMPLETE", "RESEARCH_FAILED", "SAVE_FAILED"}
QuestionStatus == {"PENDING", IN_PROGRESS} \cup QuestionTerminal

VARIABLES
    reports,            \* table reports: sequence of status, row id = index
    research_questions, \* table research_questions: sequence of rows, row id = index
    evidence_items,     \* table evidence_items: number of rows per question_id
    index_scores,       \* table index_scores: number of rows per report_id
    published_content,  \* table published_content: the final_article_text rows per report_id
    synthesis_claimed,  \* the mark of the Scorer's claim: the reports that
                        \* get_next_report_for_synthesis has handed out
    p_pc, p_runs, p_report_id, p_dim, all_questions,   \* PlannerAgent.run
    g_pc, g_question,                                  \* GathererAgent.run
    s_pc, s_report,                                    \* ScoringAgent.run
    n_pc, n_report, n_evidence, n_narrative,           \* NarrativeAgent.run
    claimed,            \* history: number of claim calls that returned each question
    narr_log            \* history per report: "none", "failed" (an oracle call of a
                        \* Narrator failed), "recovered" (an upsert followed a failure)

tables == <<reports, research_questions, evidence_items, index_scores, published_content>>
store == <<tables, synthesis_claimed>>
planner == <<p_pc, p_runs, p_report_id, p_dim, all_questions>>
gatherer == <<g_pc, g_question>>
scorer == <<s_pc, s_report>>
narrator == <<n_pc, n_report, n_evidence, n_narrative>>
history == <<claimed, narr_log>>
vars == <<store, planner, gatherer, scorer, narrator, history>>

\* ---------------------------------------------------------------- store
\* Row ids of the questions of report r.
QuestionsOf(r) == {q \in DOMAIN research_questions : research_questions[q].report_id = r}

\* rpc create_new_report: one new row with status PLANNING; its id is returned.
create_new_report == Append(reports, "PLANNING")

\* table('research_questions').insert(rows): new rows take the default status.
InsertQuestions(r, qs) ==
    research_questions \o [i \in 1..Len(qs) |-> [report_id |-> r, question |-> qs[i], status |-> "PENDING"]]

\* table('research_questions').update({'status': st}).eq('id', q)
UpdateQuestionStatus(q, st) == [research_questions EXCEPT ![q].status = st]

\* table('reports').update({'status': st}).eq('id', r)
UpdateReportStatus(r, st) == [reports EXCEPT ![r] = st]

\* rpc get_next_unanswered_question: the rows the call can select.
PendingQuestions == {q \in DOMAIN research_questions : research_questions[q].status = "PENDING"}

\* rpc get_next_unanswered_question: the selected row is marked in the same call.
get_next_unanswered_question(q) == UpdateQuestionStatus(q, IN_PROGRESS)

\* The rows rpc get_next_report_for_synthesis can claim: status RESEARCHING,
\* no PENDING question (the barrier), and not handed out to a caller before.
BarrierReports ==
    {r \in DOMAIN reports :
        /\ reports[r] = "RESEARCHING"
        /\ \A q \in QuestionsOf(r) : research_questions[q].status # "PENDING"
        /\ r \notin synthesis_claimed}

\* rpc get_next_report_for_synthesis: an atomic claim, the selected row is
\* taken out of the claimable state in the same call, so that exactly one
\* caller receives it.  The status keeps its value; the mark is the store's.
get_next_report_for_synthesis(r) == synthesis_claimed \cup {r}

\* rpc get_all_evidence_for_report: the question ids of the evidence rows of r.
get_all_evidence_for_report(r) == {q \in QuestionsOf(r) : evidence_items[q] > 0}

\* ---------------------------------------------------------------- Init
\* The store outlives the worker processes: a worker starts against the rows
\* earlier runs left.  Init is a store holding report 1 in RESEARCHING with
\* its questions PENDING, the state spec.md 4.1 gives a planned report (the
\* status ScoringAgent's rpc selects on); every other row is created by the
\* actions below.  No worker has run yet.
Init ==
    /\ reports = <<"RESEARCHING">>
    /\ research_questions =
          [i \in 1..InitQuestions |-> [report_id |-> 1, question |-> <<0, i>>, status |-> "PENDING"]]
    /\ evidence_items = [q \in QIds |-> 0]
    /\ index_scores = [r \in RIds |-> 0]
    /\ published_content = [r \in RIds |-> <<>>]
    /\ synthesis_claimed = {}
    /\ p_pc = "idle" /\ p_runs = 0 /\ p_report_id = 0 /\ p_dim = 0 /\ all_questions = <<>>
    /\ g_pc = [g \in Gatherers |-> "claim"]
    /\ g_question = [g \in Gatherers |-> 0]
    /\ s_pc = [s \in Scorers |-> "start"]
    /\ s_report = [s \in Scorers |-> 0]
    /\ n_pc = [n \in Narrators |-> "start"]
    /\ n_report = [n \in Narrators |-> 0]
    /\ n_evidence = [n \in Narrators |-> FALSE]
    /\ n_narrative = [n \in Narrators |-> NoRow]
    /\ claimed = [q \in QIds |-> 0]
    /\ narr_log = [r \in RIds |-> "none"]

\* ---------------------------------------------------------------- Planner
\* What the oracle call of _generate_questions can do: raise or reply with
\* something that is not a JSON object ("error"), reply with an object whose
\* "key_research_questions" is a list or is absent ("list"), or reply with an
\* object that holds a value that cannot be iterated under that key, such as
\* null or a number ("not_iterable").
OracleReplies == {"error", "list", "not_iterable"}

\* PlannerAgent._generate_questions, lines 91-100: [] when the call or the
\* parse raises; otherwise whatever sits under "key_research_questions" (the
\* [] default of get applies to an absent key only), a list of n questions or
\* a value that is no list.  The result is a record: iterable tells whether
\* the value can be iterated, questions holds its items.
generate_questions(d, reply, n) ==
    IF reply = "list" THEN [iterable |-> TRUE, questions |-> [k \in 1..n |-> <<d, k>>]]
    ELSE IF reply = "not_iterable" THEN [iterable |-> FALSE, questions |-> <<>>]
    ELSE [iterable |-> TRUE, questions |-> <<>>]

\* Mutant of PlannerCreate: the new report is opened for research at once,
\* before its questions exist.
PlannerCreateResearching ==
    /\ p_pc = "idle"
    /\ p_runs < MaxPlans
    /\ p_runs' = p_runs + 1
    /\ \E created \in BOOLEAN :
          IF created
          THEN /\ reports' = Append(reports, "RESEARCHING")
               /\ p_report_id' = Len(reports) + 1
               /\ p_pc' = "generate"
               /\ p_dim' = 1
               /\ all_questions' = <<>>
          ELSE /\ p_pc' = "idle"
               /\ UNCHANGED <<reports, p_report_id, p_dim, all_questions>>
    /\ UNCHANGED <<research_questions, evidence_items, index_scores, published_content>>
    /\ UNCHANGED <<gatherer, scorer, narrator, history>>
    /\ UNCHANGED synthesis_claimed

\* PlannerAgent.run, lines 102-111: create the report row, abort without an id.
PlannerCreate ==
    /\ p_pc = "idle"
    /\ p_runs < MaxPlans
    /\ p_runs' = p_runs + 1
    /\ \E created \in BOOLEAN :
          IF created
          THEN /\ reports' = create_new_report
               /\ p_report_id' = Len(reports) + 1
               /\ p_pc' = "generate"
               /\ p_dim' = 1
               /\ all_questions' = <<>>
          ELSE /\ p_pc' = "idle"
               /\ UNCHANGED <<reports, p_report_id, p_dim, all_questions>>
    /\ UNCHANGED <<research_questions, evidence_items, index_scores, published_content>>
    /\ UNCHANGED <<gatherer, scorer, narrator, history>>
    /\ UNCHANGED synthesis_claimed

\* PlannerAgent.run, lines 112-114: one iteration of the loop over METHODOLOGY.
\* all_questions.extend raises TypeError on a value that cannot be iterated;
\* run has no handler, so the process ends there: nothing is inserted, no
\* status is written, and its locals are gone.
PlannerGenerate ==
    /\ p_pc = "generate"
    /\ p_dim <= NumDimensions
    /\ \E reply \in OracleReplies, n \in 0..MaxPerDim :
          LET questions == generate_questions(p_dim, reply, n)
          IN  IF questions.iterable
              THEN /\ all_questions' = all_questions \o questions.questions
                   /\ p_dim' = p_dim + 1
                   /\ UNCHANGED <<p_pc, p_report_id>>
              ELSE /\ p_pc' = "idle"
                   /\ p_report_id' = 0
                   /\ p_dim' = 0
                   /\ all_questions' = <<>>
    /\ UNCHANGED p_runs
    /\ UNCHANGED <<store, gatherer, scorer, narrator, history>>

\* Dimensions that contributed at least one question to all_questions.
YieldingDimensions == {all_questions[i][1] : i \in DOMAIN all_questions}

\* PlannerAgent.run, lines 116-121: insert the questions, or mark PLAN_FAILED.
PlannerFinish ==
    /\ p_pc = "generate"
    /\ p_dim > NumDimensions
    /\ IF all_questions # <<>>
       THEN /\ research_questions' = InsertQuestions(p_report_id, all_questions)
            /\ UNCHANGED reports
       ELSE /\ reports' = UpdateReportStatus(p_report_id, "PLAN_FAILED")
            /\ UNCHANGED research_questions
    /\ p_pc' = "idle"
    /\ UNCHANGED <<p_runs, p_report_id, p_dim, all_questions>>
    /\ UNCHANGED <<evidence_items, index_scores, published_content>>
    /\ UNCHANGED <<gatherer, scorer, narrator, history>>
    /\ UNCHANGED synthesis_claimed

\* ---------------------------------------------------------------- Gatherer
\* Mutant of GathererClaim: a two-phase claim, the PENDING row is read with a
\* plain select and left unmarked until the outcome is written.
GathererClaimSelectOnly(g) ==
    /\ g_pc[g] = "claim"
    /\ IF PendingQuestions # {}
       THEN \E q \in PendingQuestions :
               /\ g_question' = [g_question EXCEPT ![g] = q]
               /\ g_pc' = [g_pc EXCEPT ![g] = "find_evidence"]
               /\ claimed' = [claimed EXCEPT ![q] = @ + 1]
       ELSE /\ g_pc' = [g_pc EXCEPT ![g] = "exited"]
            /\ UNCHANGED <<g_question, claimed>>
    /\ UNCHANGED <<store, planner, scorer, narrator, narr_log>>

\* Mutant of GathererClaim: the rpc also hands out rows that are marked as
\* claimed, as a claim with an expiring lease would.
GathererClaimStale(g) ==
    /\ g_pc[g] = "claim"
    /\ LET Open == {q \in DOMAIN research_questions :
                        research_questions[q].status \in {"PENDING", IN_PROGRESS}}
       IN  IF Open # {}
           THEN \E q \in Open :
                   /\ research_questions' = get_next_unanswered_question(q)
                   /\ g_question' = [g_question EXCEPT ![g] = q]
                   /\ g_pc' = [g_pc EXCEPT ![g] = "find_evidence"]
                   /\ claimed' = [claimed EXCEPT ![q] = @ + 1]
           ELSE /\ g_pc' = [g_pc EXCEPT ![g] = "exited"]
                /\ UNCHANGED <<research_questions, g_question, claimed>>
    /\ UNCHANGED <<reports, evidence_items, index_scores, published_content>>
    /\ UNCHANGED <<planner, scorer, narrator, narr_log>>
    /\ UNCHANGED synthesis_claimed

\* Mutant of GathererClaim: on an empty result the worker polls again instead
\* of leaving the loop.
GathererClaimRetry(g) ==
    /\ g_pc[g] = "claim"
    /\ IF PendingQuestions # {}
       THEN \E q \in PendingQuestions :
               /\ research_questions' = get_next_unanswered_question(q)
               /\ g_question' = [g_question EXCEPT ![g] = q]
               /\ g_pc' = [g_pc EXCEPT ![g] = "find_evidence"]
               /\ claimed' = [claimed EXCEPT ![q] = @ + 1]
       ELSE UNCHANGED <<research_questions, g_question, claimed, g_pc>>
    /\ UNCHANGED <<reports, evidence_items, index_scores, published_content>>
    /\ UNCHANGED <<planner, scorer, narrator, narr_log>>
    /\ UNCHANGED synthesis_claimed

\* Mutant of GathererClaim: the result check is wrong, the worker may take a
\* returned row for 'no work' and exit.
GathererClaimSpuriousExit(g) ==
    /\ g_pc[g] = "claim"
    /\ \/ /\ PendingQuestions # {}
          /\ \E q \in PendingQuestions :
               /\ research_questions' = get_next_unanswered_question(q)
               /\ g_question' = [g_question EXCEPT ![g] = q]
               /\ g_pc' = [g_pc EXCEPT ![g] = "find_evidence"]
               /\ claimed' = [claimed EXCEPT ![q] = @ + 1]
       \/ /\ g_pc' = [g_pc EXCEPT ![g] = "exited"]
          /\ UNCHANGED <<research_questions, g_question, claimed>>
    /\ UNCHANGED <<reports, evidence_items, index_scores, published_content>>
    /\ UNCHANGED <<planner, scorer, narrator, narr_log>>
    /\ UNCHANGED synthesis_claimed

\* GathererAgent.run, lines 147-154: claim a question, exit when none is left.
GathererClaim(g) ==
    /\ g_pc[g] = "claim"
    /\ IF PendingQuestions # {}
       THEN \E q \in PendingQuestions :
               /\ research_questions' = get_next_unanswered_question(q)
               /\ g_question' = [g_question EXCEPT ![g] = q]
               /\ g_pc' = [g_pc EXCEPT ![g] = "find_evidence"]
               /\ claimed' = [claimed EXCEPT ![q] = @ + 1]
       ELSE /\ g_pc' = [g_pc EXCEPT ![g] = "exited"]
            /\ UNCHANGED <<research_questions, g_question, claimed>>
    /\ UNCHANGED <<reports, evidence_items, index_scores, published_content>>
    /\ UNCHANGED <<planner, scorer, narrator, narr_log>>
    /\ UNCHANGED synthesis_claimed

\* What the evidence insert of line 160 can do: return the stored row, return
\* no row, or raise (the store rejects the row or cannot be reached).
InsertOutcomes == {"row", "no_row", "raises"}

\* GathererAgent.run, lines 155-161 and 168-170: the oracle call, then either
\* the evidence insert or the RESEARCH_FAILED update.  run has no handler: an
\* insert that raises ends the process with the question still claimed.
GathererResearch(g) ==
    /\ g_pc[g] = "find_evidence"
    /\ \E evidence \in BOOLEAN, save_response \in InsertOutcomes :
          IF evidence
          THEN /\ evidence_items' =
                     IF save_response = "row"
                     THEN [evidence_items EXCEPT ![g_question[g]] = @ + 1]
                     ELSE evidence_items
               /\ g_pc' = [g_pc EXCEPT ![g] =
                             IF save_response = "row" THEN "mark_complete"
                             ELSE IF save_response = "no_row" THEN "mark_save_failed"
                             ELSE "crashed"]
               /\ UNCHANGED <<research_questions, g_question>>
          ELSE /\ research_questions' = UpdateQuestionStatus(g_question[g], "RESEARCH_FAILED")
               /\ g_pc' = [g_pc EXCEPT ![g] = "claim"]
               /\ g_question' = [g_question EXCEPT ![g] = 0]
               /\ UNCHANGED evidence_items
    /\ UNCHANGED <<reports, index_scores, published_content>>
    /\ UNCHANGED <<planner, scorer, narrator, history>>
    /\ UNCHANGED synthesis_claimed

\* Mutant of GathererMarkComplete: the update is keyed by the report instead
\* of the question id, so it rewrites every question of the report.
GathererMarkCompleteByReport(g) ==
    /\ g_pc[g] = "mark_complete"
    /\ research_questions' =
          [q \in DOMAIN research_questions |->
              IF research_questions[q].report_id = research_questions[g_question[g]].report_id
              THEN [research_questions[q] EXCEPT !.status = "COMPLETE"]
              ELSE research_questions[q]]
    /\ g_pc' = [g_pc EXCEPT ![g] = "claim"]
    /\ g_question' = [g_question EXCEPT ![g] = 0]
    /\ UNCHANGED <<reports, evidence_items, index_scores, published_content>>
    /\ UNCHANGED <<planner, scorer, narrator, history>>
    /\ UNCHANGED synthesis_claimed

\* GathererAgent.run, lines 162-164: the evidence was saved.
GathererMarkComplete(g) ==
    /\ g_pc[g] = "mark_complete"
    /\ research_questions' = UpdateQuestionStatus(g_question[g], "COMPLETE")
    /\ g_pc' = [g_pc EXCEPT ![g] = "claim"]
    /\ g_question' = [g_question EXCEPT ![g] = 0]
    /\ UNCHANGED <<reports, evidence_items, index_scores, published_content>>
    /\ UNCHANGED <<planner, scorer, narrator, history>>
    /\ UNCHANGED synthesis_claimed

\* Mutant of GathererMarkSaveFailed: the failed save is recorded as a success.
GathererMarkSaveFailedAsComplete(g) ==
    /\ g_pc[g] = "mark_save_failed"
    /\ research_questions' = UpdateQuestionStatus(g_question[g], "COMPLETE")
    /\ g_pc' = [g_pc EXCEPT ![g] = "claim"]
    /\ g_question' = [g_question EXCEPT ![g] = 0]
    /\ UNCHANGED <<reports, evidence_items, index_scores, published_content>>
    /\ UNCHANGED <<planner, scorer, narrator, history>>
    /\ UNCHANGED synthesis_claimed

\* GathererAgent.run, lines 165-167: the evidence insert returned no row.
GathererMarkSaveFailed(g) ==
    /\ g_pc[g] = "mark_save_failed"
    /\ research_questions' = UpdateQuestionStatus(g_question[g], "SAVE_FAILED")
    /\ g_pc' = [g_pc EXCEPT ![g] = "claim"]
    /\ g_question' = [g_question EXCEPT ![g] = 0]
    /\ UNCHANGED <<reports, evidence_items, index_scores, published_content>>
    /\ UNCHANGED <<planner, scorer, narrator, history>>
    /\ UNCHANGED synthesis_claimed

\* ---------------------------------------------------------------- Scorer
\* Mutant of ScorerClaim: the report is selected by status alone, without the
\* condition on its questions.
ScorerClaimNoBarrier(s) ==
    /\ s_pc[s] = "start"
    /\ \E r \in {x \in DOMAIN reports :
                    reports[x] = "RESEARCHING" /\ x \notin synthesis_claimed} :
          /\ synthesis_claimed' = get_next_report_for_synthesis(r)
          /\ s_report' = [s_report EXCEPT ![s] = r]
          /\ s_pc' = [s_pc EXCEPT ![s] = "fetch"]
    /\ UNCHANGED <<tables, planner, gatherer, narrator, history>>

\* Mutant of ScorerClaim: the barrier waits for every question to be COMPLETE.
ScorerClaimAllComplete(s) ==
    /\ s_pc[s] = "start"
    /\ \E r \in {x \in DOMAIN reports :
                    /\ reports[x] = "RESEARCHING"
                    /\ \A q \in QuestionsOf(x) : research_questions[q].status = "COMPLETE"
                    /\ x \notin synthesis_claimed} :
          /\ synthesis_claimed' = get_next_report_for_synthesis(r)
          /\ s_report' = [s_report EXCEPT ![s] = r]
          /\ s_pc' = [s_pc EXCEPT ![s] = "fetch"]
    /\ UNCHANGED <<tables, planner, gatherer, narrator, history>>

\* Mutant of ScorerClaim: a read that marks nothing; the row stays claimable
\* until the run writes its status.
ScorerClaimUnmarked(s) ==
    /\ s_pc[s] = "start"
    /\ \E r \in {x \in DOMAIN reports :
                    /\ reports[x] = "RESEARCHING"
                    /\ \A q \in QuestionsOf(x) : research_questions[q].status # "PENDING"} :
          /\ s_report' = [s_report EXCEPT ![s] = r]
          /\ s_pc' = [s_pc EXCEPT ![s] = "fetch"]
    /\ UNCHANGED <<store, planner, gatherer, narrator, history>>

\* ScoringAgent.run, lines 197-204: claim a report ready for scoring; the run
\* ends when the claim returns none.
ScorerClaim(s) ==
    /\ s_pc[s] = "start"
    /\ BarrierReports # {}
    /\ \E r \in BarrierReports :
          /\ synthesis_claimed' = get_next_report_for_synthesis(r)
          /\ s_report' = [s_report EXCEPT ![s] = r]
          /\ s_pc' = [s_pc EXCEPT ![s] = "fetch"]
    /\ UNCHANGED <<tables, planner, gatherer, narrator, history>>

\* Mutant of ScorerFetchEvidence: the empty evidence set is not checked.
ScorerFetchEvidenceNoCheck(s) ==
    /\ s_pc[s] = "fetch"
    /\ s_pc' = [s_pc EXCEPT ![s] = "score"]
    /\ UNCHANGED <<store, planner, gatherer, narrator, history, s_report>>

\* ScoringAgent.run, lines 206-208: fetch the evidence of the report.
ScorerFetchEvidence(s) ==
    /\ s_pc[s] = "fetch"
    /\ s_pc' = [s_pc EXCEPT ![s] =
                  IF get_all_evidence_for_report(s_report[s]) = {} THEN "no_evidence" ELSE "score"]
    /\ UNCHANGED <<store, planner, gatherer, narrator, history, s_report>>

\* ScoringAgent.run, lines 209-211: no evidence, the report is marked failed.
ScorerFailNoEvidence(s) ==
    /\ s_pc[s] = "no_evidence"
    /\ reports' = UpdateReportStatus(s_report[s], "SCORING_FAILED")
    /\ s_pc' = [s_pc EXCEPT ![s] = "start"]
    /\ s_report' = [s_report EXCEPT ![s] = 0]
    /\ UNCHANGED <<research_questions, evidence_items, index_scores, published_content>>
    /\ UNCHANGED <<planner, gatherer, narrator, history>>
    /\ UNCHANGED synthesis_claimed

\* Mutant of ScorerScore: the row is inserted before the score card is looked
\* at, so a failed oracle call leaves a row behind.
ScorerScoreInsertFirst(s) ==
    /\ s_pc[s] = "score"
    /\ index_scores' = [index_scores EXCEPT ![s_report[s]] = @ + 1]
    /\ \E score_card \in BOOLEAN :
          IF score_card
          THEN /\ s_pc' = [s_pc EXCEPT ![s] = "review"]
               /\ UNCHANGED <<reports, s_report>>
          ELSE /\ reports' = UpdateReportStatus(s_report[s], "SCORING_FAILED")
               /\ s_pc' = [s_pc EXCEPT ![s] = "start"]
               /\ s_report' = [s_report EXCEPT ![s] = 0]
    /\ UNCHANGED <<research_questions, evidence_items, published_content>>
    /\ UNCHANGED <<planner, gatherer, narrator, history>>
    /\ UNCHANGED synthesis_claimed

\* ScoringAgent.run, lines 213-215 and 218-219: the oracle call, then either
\* the index_scores insert or the SCORING_FAILED update.
ScorerScore(s) ==
    /\ s_pc[s] = "score"
    /\ \E score_card \in BOOLEAN :
          IF score_card
          THEN /\ index_scores' = [index_scores EXCEPT ![s_report[s]] = @ + 1]
               /\ s_pc' = [s_pc EXCEPT ![s] = "review"]
               /\ UNCHANGED <<reports, s_report>>
          ELSE /\ reports' = UpdateReportStatus(s_report[s], "SCORING_FAILED")
               /\ s_pc' = [s_pc EXCEPT ![s] = "start"]
               /\ s_report' = [s_report EXCEPT ![s] = 0]
               /\ UNCHANGED index_scores
    /\ UNCHANGED <<research_questions, evidence_items, published_content>>
    /\ UNCHANGED <<planner, gatherer, narrator, history>>
    /\ UNCHANGED synthesis_claimed

\* ScoringAgent.run, lines 216-217: the score is stored, the report goes to REVIEW.
ScorerMarkReview(s) ==
    /\ s_pc[s] = "review"
    /\ reports' = UpdateReportStatus(s_report[s], "REVIEW")
    /\ s_pc' = [s_pc EXCEPT ![s] = "start"]
    /\ s_report' = [s_report EXCEPT ![s] = 0]
    /\ UNCHANGED <<research_questions, evidence_items, index_scores, published_content>>
    /\ UNCHANGED <<planner, gatherer, narrator, history>>
    /\ UNCHANGED synthesis_claimed

\* ---------------------------------------------------------------- Narrator
\* table('reports').select(...).eq('status', 'REVIEW').limit(1): the rows it can return.
ReviewReports == {r \in DOMAIN reports : reports[r] = "REVIEW"}

\* NarrativeAgent.run, lines 243-250: select a report in REVIEW.
NarratorSelect(n) ==
    /\ n_pc[n] = "start"
    /\ \E r \in ReviewReports :
          /\ n_report' = [n_report EXCEPT ![n] = r]
          /\ n_pc' = [n_pc EXCEPT ![n] = "fetch_evidence"]
    /\ UNCHANGED <<store, planner, gatherer, scorer, history, n_evidence, n_narrative>>

\* NarrativeAgent.run, line 252: fetch the evidence of the report.
NarratorFetchEvidence(n) ==
    /\ n_pc[n] = "fetch_evidence"
    /\ n_evidence' = [n_evidence EXCEPT ![n] = get_all_evidence_for_report(n_report[n]) # {}]
    /\ n_pc' = [n_pc EXCEPT ![n] = "fetch_score"]
    /\ UNCHANGED <<store, planner, gatherer, scorer, history, n_report, n_narrative>>

\* NarrativeAgent.run, lines 253-255: fetch the score row with single(), which
\* yields a row only when exactly one matches; without both inputs the run ends.
NarratorFetchScore(n) ==
    /\ n_pc[n] = "fetch_score"
    /\ LET score_card == index_scores[n_report[n]] = 1
       IN  IF n_evidence[n] /\ score_card
           THEN /\ n_pc' = [n_pc EXCEPT ![n] = "narrate"]
                /\ UNCHANGED <<n_report, n_evidence>>
           ELSE /\ n_pc' = [n_pc EXCEPT ![n] = "start"]
                /\ n_report' = [n_report EXCEPT ![n] = 0]
                /\ n_evidence' = [n_evidence EXCEPT ![n] = FALSE]
    /\ UNCHANGED <<store, planner, gatherer, scorer, history, n_narrative>>

\* Mutant of Upsert: a plain insert, the row is added beside the existing ones.
UpsertAsInsert(r, text) == [published_content EXCEPT ![r] = Append(@, text)]

\* table('published_content').upsert({report_id, final_article_text},
\* on_conflict='report_id'): the row of r is replaced, or created.
Upsert(r, text) == [published_content EXCEPT ![r] = <<text>>]

\* Mutant of NarratorNarrate: a failed oracle call marks the report failed,
\* the way the Scorer does.
NarratorNarrateFailTerminal(n) ==
    /\ n_pc[n] = "narrate"
    /\ \E narrative \in Texts \cup {NoRow} :
          /\ IF narrative # NoRow
             THEN /\ published_content' = Upsert(n_report[n], narrative)
                  /\ n_pc' = [n_pc EXCEPT ![n] = "complete"]
                  /\ n_narrative' = [n_narrative EXCEPT ![n] = narrative]
                  /\ UNCHANGED <<n_report, n_evidence, reports>>
             ELSE /\ n_pc' = [n_pc EXCEPT ![n] = "start"]
                  /\ n_report' = [n_report EXCEPT ![n] = 0]
                  /\ n_evidence' = [n_evidence EXCEPT ![n] = FALSE]
                  /\ reports' = UpdateReportStatus(n_report[n], "SCORING_FAILED")
                  /\ UNCHANGED <<published_content, n_narrative>>
    /\ UNCHANGED <<research_questions, evidence_items, index_scores>>
    /\ UNCHANGED <<planner, gatherer, scorer, claimed>>
    /\ UNCHANGED synthesis_claimed

\* NarrativeAgent.run, lines 256-258: the oracle call, then the upsert of the text.
NarratorNarrate(n) ==
    /\ n_pc[n] = "narrate"
    /\ \E narrative \in Texts \cup {NoRow} :
          /\ IF narrative # NoRow
             THEN /\ published_content' = Upsert(n_report[n], narrative)
                  /\ n_pc' = [n_pc EXCEPT ![n] = "complete"]
                  /\ n_narrative' = [n_narrative EXCEPT ![n] = narrative]
                  /\ UNCHANGED <<n_report, n_evidence>>
             ELSE /\ n_pc' = [n_pc EXCEPT ![n] = "start"]
                  /\ n_report' = [n_report EXCEPT ![n] = 0]
                  /\ n_evidence' = [n_evidence EXCEPT ![n] = FALSE]
                  /\ UNCHANGED <<published_content, n_narrative>>
    /\ UNCHANGED <<reports, research_questions, evidence_items, index_scores>>
    /\ UNCHANGED <<planner, gatherer, scorer, claimed>>
    /\ UNCHANGED synthesis_claimed

\* NarrativeAgent.run, lines 259-260: the report goes to COMPLETE.
NarratorMarkComplete(n) ==
    /\ n_pc[n] = "complete"
    /\ reports' = UpdateReportStatus(n_report[n], "COMPLETE")
    /\ n_pc' = [n_pc EXCEPT ![n] = "start"]
    /\ n_report' = [n_report EXCEPT ![n] = 0]
    /\ n_evidence' = [n_evidence EXCEPT ![n] = FALSE]
    /\ n_narrative' = [n_narrative EXCEPT ![n] = NoRow]
    /\ UNCHANGED <<research_questions, evidence_items, index_scores, published_content>>
    /\ UNCHANGED <<planner, gatherer, scorer, history>>
    /\ UNCHANGED synthesis_claimed

\* ---------------------------------------------------------------- Spec
\* The steps of the four agents' run() methods, each called on an agent
\* object of its own process.  The command-line dispatch of main (lines
\* 339-374) is not part of the steps: its agent_map literal (lines 360-367)
\* reads args.country and args.report_id for every subcommand.
Next ==
    \/ PlannerCreate
    \/ PlannerGenerate
    \/ PlannerFinish
    \/ \E g \in Gatherers : GathererClaim(g)
    \/ \E g \in Gatherers : GathererResearch(g)
    \/ \E g \in Gatherers : GathererMarkComplete(g)
    \/ \E g \in Gatherers : GathererMarkSaveFailed(g)
    \/ \E s \in Scorers : ScorerClaim(s)
    \/ \E s \in Scorers : ScorerFetchEvidence(s)
    \/ \E s \in Scorers : ScorerFailNoEvidence(s)
    \/ \E s \in Scorers : ScorerScore(s)
    \/ \E s \in Scorers : ScorerMarkReview(s)
    \/ \E n \in Narrators : NarratorSelect(n)
    \/ \E n \in Narrators : NarratorFetchEvidence(n)
    \/ \E n \in Narrators : NarratorFetchScore(n)
    \/ \E n \in Narrators : NarratorNarrate(n) /\ UNCHANGED narr_log
    \/ \E n \in Narrators : NarratorMarkComplete(n)

Spec == Init /\ [][Next]_vars

\* ---------------------------------------------------------------- review stage
\* The store after the Gatherers resolved every question of two planned
\* reports: both reports RESEARCHING with one question each.  The question
\* of report 1 is COMPLETE with its evidence row; that of report 2 is either
\* COMPLETE with its evidence row or RESEARCH_FAILED with none.  The Planner
\* and the Gatherers have ended.
InitReview ==
    /\ reports = <<"RESEARCHING", "RESEARCHING">>
    /\ \E found \in BOOLEAN :
          /\ research_questions =
                [i \in 1..2 |-> [report_id |-> i, question |-> <<0, 1>>,
                                 status |-> IF i = 1 \/ found THEN "COMPLETE"
                                            ELSE "RESEARCH_FAILED"]]
          /\ evidence_items = [q \in QIds |-> IF q = 1 \/ (q = 2 /\ found) THEN 1 ELSE 0]
    /\ index_scores = [r \in RIds |-> 0]
    /\ published_content = [r \in RIds |-> <<>>]
    /\ synthesis_claimed = {}
    /\ p_pc = "idle" /\ p_runs = MaxPlans /\ p_report_id = 0 /\ p_dim = 0 /\ all_questions = <<>>
    /\ g_pc = [g \in Gatherers |-> "exited"]
    /\ g_question = [g \in Gatherers |-> 0]
    /\ s_pc = [s \in Scorers |-> "start"]
    /\ s_report = [s \in Scorers |-> 0]
    /\ n_pc = [n \in Narrators |-> "start"]
    /\ n_report = [n \in Narrators |-> 0]
    /\ n_evidence = [n \in Narrators |-> FALSE]
    /\ n_narrative = [n \in Narrators |-> NoRow]
    /\ claimed = [q \in QIds |-> IF q \in 1..2 THEN 1 ELSE 0]
    /\ narr_log = [r \in RIds |-> "none"]

\* The narration log: what the step of NarratorNarrate(n) did for its report.
LogNarration(n) ==
    narr_log' = [narr_log EXCEPT ![n_report[n]] =
                    IF n_pc'[n] = "start" THEN (IF @ = "none" THEN "failed" ELSE @)
                    ELSE (IF @ = "failed" THEN "recovered" ELSE @)]

\* NarratorNarrate(n) with a successful oracle call.
NarrateOk(n) == NarratorNarrate(n) /\ n_pc'[n] = "complete" /\ LogNarration(n)

NextReview ==
    \/ \E s \in Scorers : ScorerClaim(s)
    \/ \E s \in Scorers : ScorerFetchEvidence(s)
    \/ \E s \in Scorers : ScorerFailNoEvidence(s)
    \/ \E s \in Scorers : ScorerScore(s)
    \/ \E s \in Scorers : ScorerMarkReview(s)
    \/ \E n \in Narrators : NarratorSelect(n)
    \/ \E n \in Narrators : NarratorFetchEvidence(n)
    \/ \E n \in Narrators : NarratorFetchScore(n)
    \/ \E n \in Narrators : NarratorNarrate(n) /\ LogNarration(n)
    \/ \E n \in Narrators : NarratorMarkComplete(n)

\* A successful oracle call of a Narrator run on report r.
NarrateOkOn(r) == \E n \in Narrators : NarrateOk(n) /\ n_report[n] = r

\* Scorer and Narrator are invoked again and again and every started run goes
\* on to its end (weak fairness of every step).  Nothing is assumed of the
\* oracle: its call may fail on every attempt.
FairReview ==
    /\ InitReview
    /\ [][NextReview]_vars
    /\ \A s \in Scorers :
          /\ WF_vars(ScorerClaim(s)) /\ WF_vars(ScorerFetchEvidence(s))
          /\ WF_vars(ScorerFailNoEvidence(s)) /\ WF_vars(ScorerScore(s))
          /\ WF_vars(ScorerMarkReview(s))
    /\ \A n \in Narrators :
          /\ WF_vars(NarratorSelect(n)) /\ WF_vars(NarratorFetchEvidence(n))
          /\ WF_vars(NarratorFetchScore(n))
          /\ WF_vars(NarratorNarrate(n) /\ LogNarration(n))
          /\ WF_vars(NarratorMarkComplete(n))

\* ---------------------------------------------------------------- fixed question set
\* The workers against the store of Init with no Planner run: the set of
\* questions is fixed.
NextWork ==
    \/ \E g \in Gatherers : GathererClaim(g)
    \/ \E g \in Gatherers : GathererResearch(g)
    \/ \E g \in Gatherers : GathererMarkComplete(g)
    \/ \E g \in Gatherers : GathererMarkSaveFailed(g)
    \/ \E s \in Scorers : ScorerClaim(s)
    \/ \E s \in Scorers : ScorerFetchEvidence(s)
    \/ \E s \in Scorers : ScorerFailNoEvidence(s)
    \/ \E s \in Scorers : ScorerScore(s)
    \/ \E s \in Scorers : ScorerMarkReview(s)
    \/ \E n \in Narrators : NarratorSelect(n)
    \/ \E n \in Narrators : NarratorFetchEvidence(n)
    \/ \E n \in Narrators : NarratorFetchScore(n)
    \/ \E n \in Narrators : NarratorNarrate(n) /\ UNCHANGED narr_log
    \/ \E n \in Narrators : NarratorMarkComplete(n)

\* Every Gatherer loop and every started Scorer run goes on unless its
\* process has ended (weak fairness of each step), and the Scorer is invoked
\* again and again (weak fairness of its first step).  An evidence insert may
\* still raise and end a Gatherer process.
FairWork ==
    /\ Init
    /\ [][NextWork]_vars
    /\ \A g \in Gatherers :
          /\ WF_vars(GathererClaim(g)) /\ WF_vars(GathererResearch(g))
          /\ WF_vars(GathererMarkComplete(g)) /\ WF_vars(GathererMarkSaveFailed(g))
    /\ \A s \in Scorers :
          /\ WF_vars(ScorerClaim(s)) /\ WF_vars(ScorerFetchEvidence(s))
          /\ WF_vars(ScorerFailNoEvidence(s)) /\ WF_vars(ScorerScore(s))
          /\ WF_vars(ScorerMarkReview(s))

\* ---------------------------------------------------------------- worker crash
\* GathererAgent.run, lines 145-170: the loop body has no exception handler, so
\* an interrupt (line 145) or an error raised by a store call ends the process
\* wherever it is between the claim and the status write. The process keeps
\* nothing, the claimed row stays as the rpc left it.
GathererCrash(g) ==
    /\ g_pc[g] \in {"find_evidence", "mark_complete", "mark_save_failed"}
    /\ g_pc' = [g_pc EXCEPT ![g] = "crashed"]
    /\ UNCHANGED <<store, planner, scorer, narrator, history, g_question>>

NextCrash ==
    \/ NextWork
    \/ \E g \in Gatherers : GathererCrash(g)

SpecCrash == Init /\ [][NextCrash]_vars

TypeOK ==
    /\ \A r \in DOMAIN reports : reports[r] \in ReportStatus
    /\ \A q \in DOMAIN research_questions : research_questions[q].status \in QuestionStatus
    /\ DOMAIN reports \subseteq RIds
    /\ DOMAIN research_questions \subseteq QIds

\* ---------------------------------------------------------------- claims
Status(q) == research_questions[q].status
AllResolved(r) == \A q \in QuestionsOf(r) : Status(q) \in QuestionTerminal
CompleteOf(r) == {q \in QuestionsOf(r) : Status(q) = "COMPLETE"}

\* C1: no question is returned by two claim calls, and no two Gatherer
\* workers hold (research) the same question.
C1_ClaimAtomicity ==
    /\ \A q \in QIds : claimed[q] <= 1
    /\ \A g, h \in Gatherers : (g # h /\ g_question[g] # 0) => g_question[g] # g_question[h]

\* Two workers are researching two different claimed questions at once.
C1_Witness ==
    \E g, h \in Gatherers :
        /\ g # h
        /\ g_pc[g] = "find_evidence" /\ g_pc[h] = "find_evidence"
        /\ claimed[g_question[g]] = 1 /\ claimed[g_question[h]] = 1

\* C2: a step that inserts a Score for report r is taken only while no
\* question of r is PENDING.
C2_Barrier ==
    [][\A r \in DOMAIN reports :
          index_scores'[r] > index_scores[r] =>
              \A q \in QuestionsOf(r) : Status(q) # "PENDING"]_vars

\* A Score has been inserted while another report still has PENDING questions.
C2_Witness ==
    /\ \E r \in DOMAIN reports : index_scores[r] > 0
    /\ PendingQuestions # {}

\* C3: if a Score exists for a report, every question of the report has a
\* terminal status (COMPLETE, RESEARCH_FAILED or SAVE_FAILED).
C3_ScoreImpliesResolved ==
    \A r \in DOMAIN reports : index_scores[r] > 0 => AllResolved(r)

LegalEdges ==
    { <<"PLANNING", "RESEARCHING">>, <<"PLANNING", "PLAN_FAILED">>,
      <<"RESEARCHING", "REVIEW">>, <<"RESEARCHING", "SCORING_FAILED">>,
      <<"REVIEW", "COMPLETE">> }

\* C4: every change of a report's status is an edge of the state diagram.
C4_Monotonic ==
    [][\A r \in DOMAIN reports :
          reports'[r] # reports[r] => <<reports[r], reports'[r]>> \in LegalEdges]_vars

\* Both Scorer workers and both Narrator workers have run: one report went
\* RESEARCHING -> REVIEW -> COMPLETE, another ended PLAN_FAILED or
\* SCORING_FAILED.
C4_Witness ==
    /\ \E r \in DOMAIN reports : reports[r] = "COMPLETE"
    /\ \E r \in DOMAIN reports : reports[r] \in {"PLAN_FAILED", "SCORING_FAILED"}
    /\ \A s \in Scorers : s_pc[s] = "start"

\* C5: a question's status changes only PENDING -> claimed, by the claim of
\* the worker that then holds it, and claimed -> terminal, by the worker
\* that holds it; an outcome is written only on a claimed row; a resolved
\* question was returned by exactly one claim and is never returned again.
C5_SingleWriter ==
    [][/\ \A q \in DOMAIN research_questions :
             Status(q) # research_questions'[q].status =>
                \/ /\ Status(q) = "PENDING"
                   /\ research_questions'[q].status = IN_PROGRESS
                   /\ \E g \in Gatherers : g_pc[g] = "claim" /\ g_question'[g] = q
                \/ /\ Status(q) = IN_PROGRESS
                   /\ research_questions'[q].status \in QuestionTerminal
                   /\ \E g \in Gatherers : g_question[g] = q /\ g_question'[g] = 0
       /\ \A g \in Gatherers :
             /\ (g_question[g] # 0 /\ g_question'[g] = 0) =>
                   /\ Status(g_question[g]) = IN_PROGRESS
                   /\ research_questions'[g_question[g]].status \in QuestionTerminal
             /\ (g_question[g] = 0 /\ g_question'[g] # 0) =>
                   Status(g_question'[g]) = "PENDING"
       /\ \A q \in DOMAIN research_questions :
             Status(q) \in QuestionTerminal => claimed[q] = 1 /\ claimed'[q] = 1]_vars

\* A worker has resolved one question and holds the next one.
C5_Witness ==
    \E q \in DOMAIN research_questions, g \in Gatherers :
        /\ Status(q) \in QuestionTerminal
        /\ g_question[g] # 0 /\ g_question[g] # q

\* C6: at most one Score row exists per report.
C6_OneScore == \A r \in RIds : index_scores[r] <= 1

\* One Scorer run has inserted the Score of a report and not yet written its
\* status, so the report is still RESEARCHING with no PENDING question, and
\* a concurrently invoked Scorer is at its claim, which returns no report.
C6_Witness ==
    \E s, t \in Scorers :
        /\ s_pc[s] = "review" /\ reports[s_report[s]] = "RESEARCHING"
        /\ index_scores[s_report[s]] = 1
        /\ s_pc[t] = "start" /\ BarrierReports = {}

\* C7: a Planner run that ends with a non-empty question list has inserted
\* every accumulated question as a PENDING question of the new report and
\* leaves the report in RESEARCHING.
C7_PlannerSuccess ==
    [][(p_pc = "generate" /\ p_pc' = "idle" /\ all_questions # <<>>) =>
          /\ reports'[p_report_id] = "RESEARCHING"
          /\ \A i \in DOMAIN all_questions :
                \E q \in DOMAIN research_questions' :
                    research_questions'[q] =
                       [report_id |-> p_report_id, question |-> all_questions[i], status |-> "PENDING"]]_vars

\* C8: a Planner run in which no dimension yielded a question ends with the
\* report PLAN_FAILED and no question of that report; a run in which some
\* dimension yielded a question does not end in PLAN_FAILED, and a
\* PLAN_FAILED report never has questions.
C8_PlannerFailure ==
    [][/\ (p_pc = "generate" /\ p_pc' = "idle") =>
             IF YieldingDimensions = {}
             THEN /\ reports'[p_report_id] = "PLAN_FAILED"
                  /\ research_questions' = research_questions
             ELSE reports'[p_report_id] # "PLAN_FAILED"
       /\ \A r \in DOMAIN reports : reports[r] = "PLAN_FAILED" => QuestionsOf(r) = {}]_vars

\* C9: a worker that has claimed question q and made its oracle call goes
\* on to one of the three outcomes and never stops: after a saved evidence
\* row the status is COMPLETE and q has an evidence row; after a failed
\* insert it is SAVE_FAILED and q has none; after a failed oracle call it is
\* RESEARCH_FAILED and q has none; the worker is then back at its claim.
\* The evidence insert adds a row exactly when the save succeeded.
C9_GathererOutcome ==
    [][\A g \in Gatherers :
          LET q == g_question[g] IN
          /\ (g_pc[g] = "find_evidence" /\ g_pc'[g] # "find_evidence") =>
                g_pc'[g] \in {"mark_complete", "mark_save_failed", "claim"}
          /\ (q # 0 /\ g_question'[g] = 0) =>
                /\ g_pc'[g] = "claim"
                /\ g_pc[g] \in {"find_evidence", "mark_complete", "mark_save_failed"}
                /\ g_pc[g] = "mark_complete" =>
                      research_questions'[q].status = "COMPLETE" /\ evidence_items'[q] = 1
                /\ g_pc[g] = "mark_save_failed" =>
                      research_questions'[q].status = "SAVE_FAILED" /\ evidence_items'[q] = 0
                /\ g_pc[g] = "find_evidence" =>
                      research_questions'[q].status = "RESEARCH_FAILED" /\ evidence_items'[q] = 0
          /\ (g_pc[g] = "find_evidence" /\ g_pc'[g] = "mark_complete") =>
                evidence_items'[q] = evidence_items[q] + 1
          /\ (g_pc[g] = "find_evidence" /\ g_pc'[g] = "mark_save_failed") =>
                evidence_items'[q] = evidence_items[q]]_vars

\* C10: for a Scorer run on report r whose questions are all resolved, k of
\* them COMPLETE: the evidence set it fetches is empty exactly when k = 0;
\* on an empty set, or a failed oracle call, the run sets r to
\* SCORING_FAILED and inserts no Score; otherwise it inserts one Score and
\* then sets r to REVIEW.
C10_ScorerOutcome ==
    [][\A s \in Scorers :
          LET r == s_report[s] IN
          /\ (s_pc[s] = "fetch" /\ s_pc'[s] # "fetch" /\ AllResolved(r)) =>
                /\ s_pc'[s] = (IF CompleteOf(r) = {} THEN "no_evidence" ELSE "score")
          /\ (s_pc[s] = "no_evidence" /\ s_pc'[s] # "no_evidence") =>
                /\ reports'[r] = "SCORING_FAILED" /\ index_scores' = index_scores
                /\ s_pc'[s] = "start"
          /\ (s_pc[s] = "score" /\ s_pc'[s] # "score") =>
                \/ /\ s_pc'[s] = "review"
                   /\ index_scores' = [index_scores EXCEPT ![r] = @ + 1]
                   /\ reports' = reports
                \/ /\ s_pc'[s] = "start"
                   /\ reports'[r] = "SCORING_FAILED" /\ index_scores' = index_scores
          /\ (s_pc[s] = "review" /\ s_pc'[s] # "review") =>
                /\ reports'[r] = "REVIEW" /\ index_scores' = index_scores
                /\ s_pc'[s] = "start"]_vars

\* A report with resolved questions, some COMPLETE and some failed, is in REVIEW
\* with a Score.
C10_Witness ==
    \E r \in DOMAIN reports :
        /\ reports[r] = "REVIEW" /\ index_scores[r] > 0
        /\ AllResolved(r)
        /\ CompleteOf(r) # {} /\ CompleteOf(r) # QuestionsOf(r)

\* C11: a Narrator run that ends without an upsert (failed oracle call, or
\* missing inputs) writes nothing: reports and published_content are
\* unchanged, so a report in REVIEW stays in REVIEW and selectable; a run
\* whose oracle call succeeds stores the text and then sets the report to
\* COMPLETE.
C11_NarratorRecovery ==
    [][\A n \in Narrators :
          LET r == n_report[n] IN
          /\ (n_pc[n] \in {"fetch_score", "narrate"} /\ n_pc'[n] = "start") =>
                /\ reports' = reports /\ published_content' = published_content
                /\ reports[r] = "REVIEW" => r \in ReviewReports'
          /\ (n_pc[n] = "narrate" /\ n_pc'[n] = "complete") =>
                /\ n_narrative'[n] \in Texts
                /\ published_content'[r] = <<n_narrative'[n]>>
                /\ reports' = reports
          /\ (n_pc[n] = "complete" /\ n_pc'[n] = "start") =>
                /\ reports'[r] = "COMPLETE"
                /\ published_content' = published_content]_vars

\* A report whose narration failed was narrated by a later upsert and is COMPLETE.
C11_Witness ==
    \E r \in DOMAIN reports :
        /\ narr_log[r] = "recovered"
        /\ reports[r] = "COMPLETE"
        /\ Len(published_content[r]) = 1

\* C12: no report is being processed by two Narrator workers at the same time.
C12_NarratorExclusive ==
    \A n, m \in Narrators : (n # m /\ n_report[n] # 0) => n_report[n] # n_report[m]

\* C13: a claim call ends the worker with 'no work' only when no question is
\* PENDING, and a claim call made while a question is PENDING returns one of
\* the PENDING questions; so of two workers claiming a single PENDING
\* question one gets it and the other gets 'no work'.
C13_NoSpuriousFailure ==
    [][\A g \in Gatherers :
          (g_pc[g] = "claim" /\ g_pc'[g] # "claim") =>
              IF PendingQuestions = {}
              THEN g_pc'[g] = "exited" /\ g_question'[g] = 0
              ELSE /\ g_pc'[g] = "find_evidence"
                   /\ g_question'[g] \in PendingQuestions
                   /\ PendingQuestions' = PendingQuestions \ {g_question'[g]}]_vars

\* One worker holds the last PENDING question, the other got 'no work'.
C13_Witness ==
    \E g, h \in Gatherers :
        /\ g_pc[g] = "find_evidence" /\ claimed[g_question[g]] = 1
        /\ g_pc[h] = "exited"
        /\ PendingQuestions = {}

FailedOf(r) == {q \in QuestionsOf(r) : Status(q) \in {"RESEARCH_FAILED", "SAVE_FAILED"}}

\* C14: a RESEARCHING report whose questions are all resolved, failed ones
\* included, is eligible for the Scorer's claim (an idle Scorer can take it)
\* until a Scorer run has taken it, and under fair scheduling of the Scorer
\* it eventually leaves RESEARCHING.
C14_FailedNeverBlocks ==
    /\ [](\A r \in DOMAIN reports :
             (reports[r] = "RESEARCHING" /\ AllResolved(r)) =>
                 \/ /\ r \in BarrierReports
                    /\ \A s \in Scorers : s_pc[s] = "start" => ENABLED ScorerClaim(s)
                 \/ \E s \in Scorers : s_report[s] = r)
    /\ \A r \in RIds :
          (r \in DOMAIN reports /\ reports[r] = "RESEARCHING" /\ AllResolved(r))
             ~> (r \in DOMAIN reports /\ reports[r] # "RESEARCHING")

\* A report whose questions all failed was taken by a Scorer run and has
\* left RESEARCHING.
C14_Witness ==
    \E r \in DOMAIN reports :
        /\ QuestionsOf(r) # {} /\ FailedOf(r) = QuestionsOf(r)
        /\ reports[r] = "SCORING_FAILED"

AllExited == \A g \in Gatherers : g_pc[g] = "exited"

\* C18: with a fixed set of questions and no crash every Gatherer worker
\* eventually exits, and once all have exited no question is PENDING and
\* every claimed question has a terminal status.
C18_GathererTermination ==
    /\ [](\A g \in Gatherers : g_pc[g] # "crashed") => <>AllExited
    /\ [](AllExited =>
             /\ PendingQuestions = {}
             /\ \A q \in DOMAIN research_questions :
                   claimed[q] > 0 => Status(q) \in QuestionTerminal)

\* All workers have exited after resolving every question.
C18_Witness ==
    /\ AllExited
    /\ \A q \in DOMAIN research_questions : claimed[q] = 1 /\ Status(q) \in QuestionTerminal

\* A REVIEW report with what a narration needs: evidence, exactly one Score
\* row, and no Scorer run still holding it.
Narratable(r) ==
    /\ r \in DOMAIN reports /\ reports[r] = "REVIEW"
    /\ get_all_evidence_for_report(r) # {}
    /\ index_scores[r] = 1
    /\ \A s \in Scorers : s_report[s] # r

\* C15: a REVIEW report whose narration would succeed (its oracle call does
\* not fail for ever when it is tried again and again) is eventually selected
\* by the repeatedly invoked Narrator and reaches COMPLETE, whatever other
\* REVIEW report keeps failing narration.
C15_FailedReportNeverBlocks ==
    \A r \in RIds :
        SF_vars(NarrateOkOn(r)) =>
            (Narratable(r) ~> (r \in DOMAIN reports /\ reports[r] = "COMPLETE"))

\* C16: there is at most one EvidenceItem per question; every COMPLETE
\* question has one, and no RESEARCH_FAILED or SAVE_FAILED question has one.
C16_EvidenceInvariant ==
    \A q \in DOMAIN research_questions :
        /\ evidence_items[q] <= 1
        /\ Status(q) = "COMPLETE" => evidence_items[q] = 1
        /\ Status(q) \in {"RESEARCH_FAILED", "SAVE_FAILED"} => evidence_items[q] = 0

\* One question resolved with its evidence, one failed at the save and one
\* failed at the research.
C16_Witness ==
    \E q1, q2, q3 \in DOMAIN research_questions :
        /\ Status(q1) = "COMPLETE" /\ evidence_items[q1] = 1
        /\ Status(q2) = "SAVE_FAILED" /\ evidence_items[q2] = 0
        /\ Status(q3) = "RESEARCH_FAILED" /\ evidence_items[q3] = 0

\* The Narrator run of n performs its upsert on report r in this step.
UpsertStep(n, r) == n_pc[n] = "narrate" /\ n_pc'[n] = "complete" /\ n_report[n] = r

\* C17: whatever Narrator runs act on a report, repeated or concurrent, it
\* has at most one Narrative row; each successful upsert leaves exactly the
\* row with its text, and no other step changes the row.
C17_UpsertIdempotent ==
    /\ [](\A r \in DOMAIN reports : Len(published_content[r]) <= 1)
    /\ [][\A r \in DOMAIN reports :
            IF \E n \in Narrators : UpsertStep(n, r)
            THEN \E n \in Narrators :
                    UpsertStep(n, r) /\ published_content'[r] = <<n_narrative'[n]>>
            ELSE published_content'[r] = published_content[r]]_vars

\* A second upsert on the same report replaced the text of the first: the
\* run of n wrote its text, and the row now holds the later text of m.
C17_Witness ==
    \E n, m \in Narrators :
        /\ n # m /\ n_pc[n] = "complete" /\ n_pc[m] = "complete"
        /\ n_report[n] = n_report[m]
        /\ n_narrative[n] # n_narrative[m]
        /\ published_content[n_report[n]] = <<n_narrative[m]>>

\* C19: the question held by a Gatherer that crashed between its claim and
\* its status write stays in the claimed state: no step changes its row, no
\* claim call returns it again, and no live worker comes to hold it.
C19_CrashLeavesClaimed ==
    /\ [](\A g \in Gatherers :
             g_pc[g] = "crashed" =>
                 /\ Status(g_question[g]) = IN_PROGRESS
                 /\ g_question[g] \notin PendingQuestions)
    /\ [][\A g \in Gatherers :
            g_pc[g] = "crashed" =>
                LET q == g_question[g]
                IN  /\ g_pc'[g] = "crashed" /\ g_question'[g] = q
                    /\ research_questions'[q] = research_questions[q]
                    /\ claimed'[q] = claimed[q]
                    /\ \A h \in Gatherers : g_question'[h] = q => g_question[h] = q]_vars

\* A worker crashed holding a question; the other worker has since drained
\* the queue and exited, and the Scorer has taken the report past the
\* barrier: the question is still claimed.
C19_Witness ==
    \E g, h \in Gatherers :
        /\ g_pc[g] = "crashed" /\ g_pc[h] = "exited"
        /\ Status(g_question[g]) = IN_PROGRESS
        /\ reports[research_questions[g_question[g]].report_id] \in {"REVIEW", "SCORING_FAILED"}

\* Every invocation has run to its end and no further invocation of a
\* Gatherer, Scorer or Narrator would find work.
Quiescent ==
    /\ p_pc = "idle"
    /\ AllExited /\ PendingQuestions = {}
    /\ \A s \in Scorers : s_pc[s] = "start"
    /\ BarrierReports = {}
    /\ \A n \in Narrators : n_pc[n] = "start"
    /\ ReviewReports = {}

\* C20: with no crash and the workers run until none of them finds work,
\* every report for which the Planner inserted questions has reached
\* COMPLETE, PLAN_FAILED or SCORING_FAILED, having become claimable by the
\* Scorer on the way.
C20_EndToEndProgress ==
    Quiescent =>
        \A r \in DOMAIN reports :
            QuestionsOf(r) # {} => reports[r] \in {"COMPLETE", "PLAN_FAILED", "SCORING_FAILED"}

\* C21: a report in REVIEW or COMPLETE has a Score row, a COMPLETE report has
\* a Narrative row, and a report in PLANNING, PLAN_FAILED or SCORING_FAILED
\* has neither a Score row nor a Narrative row.
C21_ArtifactStatusConsistency ==
    \A r \in DOMAIN reports :
        /\ reports[r] \in {"REVIEW", "COMPLETE"} => index_scores[r] >= 1
        /\ reports[r] = "COMPLETE" => Len(published_content[r]) >= 1
        /\ reports[r] \in {"PLANNING", "PLAN_FAILED", "SCORING_FAILED"} =>
              index_scores[r] = 0 /\ Len(published_content[r]) = 0

\* A report went through scoring and narration and is COMPLETE with exactly
\* one Score row and one Narrative row, while a report whose Planner run
\* failed is PLAN_FAILED with neither.
C21_Witness ==
    \E r, x \in DOMAIN reports :
        /\ reports[r] = "COMPLETE" /\ index_scores[r] = 1 /\ Len(published_content[r]) = 1
        /\ reports[x] = "PLAN_FAILED" /\ index_scores[x] = 0 /\ Len(published_content[x]) = 0

\* C22: while a Planner run is between creating its report and writing its
\* questions, the report is not returned by the Scorer's claim, no Scorer
\* run holds it, and it is neither REVIEW nor SCORING_FAILED.
C22_NoScoringDuringPlanning ==
    p_pc = "generate" =>
        /\ p_report_id \notin BarrierReports
        /\ \A s \in Scorers : s_report[s] # p_report_id
        /\ reports[p_report_id] \notin {"REVIEW", "SCORING_FAILED"}

\* A Planner run is under way and its report has no question yet, so the
\* report has zero PENDING questions; one Scorer run holds another report
\* and the claim of an idle Scorer returns no report.
C22_Witness ==
    /\ p_pc = "generate" /\ QuestionsOf(p_report_id) = {}
    /\ BarrierReports = {}
    /\ \E s, t \in Scorers :
          /\ s_pc[s] = "start"
          /\ s_pc[t] = "fetch" /\ s_report[t] # p_report_id
====
